---- MODULE Spec2Model ----
(***************************************************************************)
(* pakman: the Manager (install / upgrade / uninstall / upgradable) over   *)
(* the file-system local store, with the file-system, HTTP (caching) and   *)
(* memory repositories as its source.                                      *)
(*                                                                         *)
(* Every public Manager operation is one action.  An operation runs over a *)
(* context x that carries the local store, the HTTP index cache, the trace *)
(* of repository calls the Manager made and the count of fallible I/O      *)
(* steps executed; the failAt-th fallible step of the operation fails with *)
(* an I/O error (failAt = 0: none does).  Every operation returns at the   *)
(* first error, so one failing step per operation covers every run.  The   *)
(* caller takes the outcome of an operation (Return) before the next one.  *)
(***************************************************************************)
EXTENDS Integers, Sequences, FiniteSets, TLC

(***************************************************************************)
(* Bounds of the model.                                                    *)
(***************************************************************************)
MaxBatch == 2   \* longest argument list of a batch call
MaxTime  == 2   \* the clock runs 0..MaxTime
MaxTTL   == 1   \* CacheTTL of the HTTP source is configured in 1..MaxTTL

(***************************************************************************)
(* The packages of the source.  A file's content is tagged with the        *)
(* version it belongs to, so content of different versions differs.        *)
(***************************************************************************)
Ids       == {"a", "b"}
IdOrder   == <<"a", "b">>          \* lexical order, the order of filepath.Walk
Versions  == {"v1", "v2", "v3"}
FileNames == {"f", "g", "h"}

Nil     == [kind |-> "nil"]        \* a nil pointer / nil interface
Absent  == [kind |-> "absent"]     \* no file at the path
Corrupt == [kind |-> "corrupt"]    \* a created file whose yaml was not written
NoFile  == "absent"                \* no package file at the path
Partial == "partial"               \* a created file whose copy failed
NoSpec  == "none"                  \* the index has no entry for the id

\* pak.Manifest (ID, Version, Files; Name and Date take no part in any decision)
Manifest(id, v, files) == [ID |-> id, Version |-> v, Files |-> files]

\* The manifests the source holds, at <id>/<version>/manifest.yml.
SrcManifest(id, v) ==
    CASE id = "a" /\ v = "v1" -> Manifest("a", "v1", <<"f", "g">>)
      [] id = "a" /\ v = "v2" -> Manifest("a", "v2", <<"g">>)
      [] id = "a" /\ v = "v3" -> Manifest("a", "v3", <<"h", "g">>)
      [] id = "b" /\ v = "v1" -> Manifest("b", "v1", <<"f">>)
      [] id = "b" /\ v = "v2" -> Manifest("b", "v2", <<"f">>)
      [] OTHER -> Nil

\* The files the source holds, at <id>/<version>/<file>: every listed file but
\* g of a@v3, which the source lacks.
SrcFile(id, v, f) ==
    IF /\ SrcManifest(id, v) # Nil
       /\ \E k \in 1..Len(SrcManifest(id, v).Files) : SrcManifest(id, v).Files[k] = f
       /\ ~(id = "a" /\ v = "v3" /\ f = "g")
    THEN v
    ELSE NoFile

\* The states of the source's index: a alone at v1; a at v2; a and b at v2.
Indexes ==
    { [a |-> "v1", b |-> NoSpec], [a |-> "v2", b |-> NoSpec], [a |-> "v2", b |-> "v2"] }

VARIABLES
    kind,       \* the source repository the Manager was given: "fs", "http", "memory"
    index,      \* the source's index: id -> currentVersion, or NoSpec
    local,      \* the local store: [manifest: id -> file, files: id -> name -> content]
    cache,      \* http.Repository.cachedIndex and cacheTime: Nil, or [index, time]
    ttl,        \* http.Repository.CacheTTL
    now,        \* the clock
    last        \* the last Manager operation: its arguments, outcome and call trace

vars == <<kind, index, local, cache, ttl, now, last>>

(***************************************************************************)
(* The context of a running operation.                                     *)
(***************************************************************************)
StartFrom(store, cached, failAt) ==
    [local |-> store, cache |-> cached, calls |-> <<>>, n |-> 0, failAt |-> failAt,
     resolved |-> <<>>, fetches |-> 0]

Start(failAt) == StartFrom(local, cache, failAt)

\* One fallible I/O step is executed.
Tick(x) == [x EXCEPT !.n = @ + 1]
\* The next fallible I/O step is the one that fails.
Faulty(x) == x.n + 1 = x.failAt

\* The result of a call: the context after it, the value and the error ("": none).
Ret(x, val, err) == [x |-> x, val |-> val, err |-> err]

\* The Manager's call op, made for argument number i, is added to the trace.
Call(op, i, r) ==
    [r EXCEPT !.x.calls = Append(@, [op |-> op, i |-> i, ok |-> r.err = ""])]

(***************************************************************************)
(* yaml: the manifest as written to and read from <id>/manifest.           *)
(***************************************************************************)
yamlWriteManifest(m) ==
    [kind |-> "yaml", id |-> m.ID, version |-> m.Version, files |-> m.Files]
yamlReadManifest(c) == Manifest(c.id, c.version, c.files)

(***************************************************************************)
(* fs.Repository as the local store.                                       *)
(***************************************************************************)
\* os.Open of <id>/manifest and yaml.ReadManifest
getManifest(x, id) ==
    IF Faulty(x) THEN Ret(Tick(x), Nil, "io")
    ELSE IF x.local.manifest[id] = Absent THEN Ret(Tick(x), Nil, "notExist")
    ELSE IF x.local.manifest[id] = Corrupt THEN Ret(Tick(x), Nil, "decode")
    ELSE Ret(Tick(x), yamlReadManifest(x.local.manifest[id]), "")

\* Variant: a manifest that does not exist is an error like any other.
notExistIsErr(r) == r

\* errors.Is(err, os.ErrNotExist): no manifest is (nil, nil)
notExistIsNil(r) == IF r.err = "notExist" THEN Ret(r.x, Nil, "") ELSE r

GetInstalledManifest(x, id) == notExistIsNil(getManifest(x, id))

\* io.Copy into the created file y
copyInto(y, id, file, data) ==
    IF Faulty(y) THEN Ret([Tick(y) EXCEPT !.local.files[id][file] = Partial], Nil, "io")
    ELSE Ret([Tick(y) EXCEPT !.local.files[id][file] = data], Nil, "")

\* os.MkdirAll and os.Create of <id>/<file>, then io.Copy
Write(x, id, version, file, data) ==
    IF Faulty(x) THEN Ret(Tick(x), Nil, "io") ELSE copyInto(Tick(x), id, file, data)

\* Variant: the manifest is written into the directory of the first package.
encodeIntoFirst(y, manifest) ==
    IF Faulty(y) THEN Ret([Tick(y) EXCEPT !.local.manifest[IdOrder[1]] = Corrupt], Nil, "io")
    ELSE Ret([Tick(y) EXCEPT !.local.manifest[IdOrder[1]] = yamlWriteManifest(manifest)],
             Nil, "")

\* yaml.WriteManifest into the created file y
encodeInto(y, manifest) ==
    IF Faulty(y) THEN Ret([Tick(y) EXCEPT !.local.manifest[manifest.ID] = Corrupt], Nil, "io")
    ELSE Ret([Tick(y) EXCEPT !.local.manifest[manifest.ID] = yamlWriteManifest(manifest)],
             Nil, "")

\* os.MkdirAll and os.Create of <manifest.ID>/manifest, then yaml.WriteManifest
WriteManifest(x, manifest) ==
    IF Faulty(x) THEN Ret(Tick(x), Nil, "io") ELSE encodeInto(Tick(x), manifest)

\* Variant: Delete removes the whole directory of the id.
removeAll(x, id, files, k) ==
    IF Faulty(x) THEN Ret(Tick(x), Nil, "io")
    ELSE Ret([Tick(x) EXCEPT !.local.files[id] = [f \in FileNames |-> NoFile],
                             !.local.manifest[id] = Absent], Nil, "")

\* Variant: Delete removes the manifest and leaves the files it lists.
removeManifestOnly(x, id, files, k) ==
    IF Faulty(x) THEN Ret(Tick(x), Nil, "io")
    ELSE Ret([Tick(x) EXCEPT !.local.manifest[id] = Absent], Nil, "")

\* The loop of Delete from the k-th listed file on (os.Remove of a file that is
\* not there is an error), then the manifest.
RECURSIVE removeFiles(_, _, _, _)
removeFiles(x, id, files, k) ==
    IF Faulty(x) THEN Ret(Tick(x), Nil, "io")
    ELSE IF k > Len(files) THEN Ret([Tick(x) EXCEPT !.local.manifest[id] = Absent], Nil, "")
    ELSE IF x.local.files[id][files[k]] = NoFile THEN Ret(Tick(x), Nil, "notExist")
    ELSE removeFiles([Tick(x) EXCEPT !.local.files[id][files[k]] = NoFile], id, files, k + 1)

\* Delete once the installed manifest is read as r
deleteListed(r, id) ==
    IF r.err # "" THEN Ret(r.x, Nil, r.err)
    ELSE IF r.val = Nil THEN Ret(r.x, Nil, "")
    ELSE removeFiles(r.x, id, r.val.Files, 1)

Delete(x, id) == deleteListed(GetInstalledManifest(x, id), id)

\* The manifests filepath.Walk finds from the k-th directory on: those that
\* decode and lie in the directory of their own id.
RECURSIVE walk(_, _)
walk(x, k) ==
    IF k > Len(IdOrder) THEN <<>>
    ELSE IF \/ x.local.manifest[IdOrder[k]] = Absent
            \/ x.local.manifest[IdOrder[k]] = Corrupt
            \/ yamlReadManifest(x.local.manifest[IdOrder[k]]).ID # IdOrder[k]
         THEN walk(x, k + 1)
    ELSE <<yamlReadManifest(x.local.manifest[IdOrder[k]])>> \o walk(x, k + 1)

ListInstalled(x) ==
    IF Faulty(x) THEN Ret(Tick(x), <<>>, "io") ELSE Ret(Tick(x), walk(x, 1), "")

(***************************************************************************)
(* The source repositories: fs.Repository, http.Repository and             *)
(* memory.Repository behind pak.SourceRepository.                          *)
(***************************************************************************)
\* index[id] with the comma-ok lookup of a SpecIndex
specOf(idx, id) ==
    IF idx[id] = NoSpec THEN Nil ELSE [ID |-> id, CurrentVersion |-> idx[id]]

\* The io.ReadCloser over a file's content.
Reader(data) == [kind |-> "reader", data |-> data]

\* fs.Repository.getIndex: index.yml is opened and read on every call.
fsGetIndex(x) ==
    IF Faulty(x) THEN Ret(Tick(x), Nil, "io") ELSE Ret(Tick(x), index, "")

\* Variant: the cached index never expires.
neverExpired(x) == x

\* Variant: the cached index expires when its age reaches CacheTTL.
expiresAtTTL(x) ==
    IF x.cache = Nil THEN x
    ELSE IF now - x.cache.time >= ttl THEN [x EXCEPT !.cache = Nil]
    ELSE x

\* http.Repository.checkCacheExpired
checkCacheExpired(x) ==
    IF x.cache = Nil THEN x
    ELSE IF now - x.cache.time > ttl THEN [x EXCEPT !.cache = Nil]
    ELSE x

\* Variant: the fetched index is cached, cacheTime is not set.
fetchedUnstamped(y) ==
    IF y.cache # Nil THEN Ret(y, y.cache.index, "")
    ELSE IF Faulty(y) THEN Ret([Tick(y) EXCEPT !.fetches = @ + 1], Nil, "io")
    ELSE Ret([Tick(y) EXCEPT !.cache = [index |-> index, time |-> 0],
                             !.fetches = @ + 1], index, "")

\* http.Repository.getIndex after checkCacheExpired
cachedOrFetched(y) ==
    IF y.cache # Nil THEN Ret(y, y.cache.index, "")
    ELSE IF Faulty(y) THEN Ret([Tick(y) EXCEPT !.fetches = @ + 1], Nil, "io")
    ELSE Ret([Tick(y) EXCEPT !.cache = [index |-> index, time |-> now],
                             !.fetches = @ + 1], index, "")

\* Variant: a fetch that fails puts the index that was cached back.
staleOnError(x, r) == IF r.err # "" THEN Ret([r.x EXCEPT !.cache = x.cache], Nil, r.err) ELSE r
httpGetIndexStale(x) == staleOnError(x, cachedOrFetched(checkCacheExpired(x)))

httpGetIndex(x) == cachedOrFetched(checkCacheExpired(x))

\* GetSpec once the index is read as r
specIn(r, id) ==
    IF r.err # "" THEN Ret(r.x, Nil, r.err) ELSE Ret(r.x, specOf(r.val, id), "")

GetSpec(x, id) ==
    IF kind = "memory" THEN Ret(x, specOf(index, id), "")
    ELSE IF kind = "http" THEN specIn(httpGetIndex(x), id)
    ELSE specIn(fsGetIndex(x), id)

\* http.Repository.GetManifest: a status >= 400 is an error, a manifest of another
\* version than the one asked for is nil.
httpGetManifest(x, id, version) ==
    IF Faulty(x) THEN Ret(Tick(x), Nil, "io")
    ELSE IF SrcManifest(id, version) = Nil THEN Ret(Tick(x), Nil, "status")
    ELSE IF version # "" /\ version # SrcManifest(id, version).Version
         THEN Ret(Tick(x), Nil, "")
    ELSE Ret(Tick(x), SrcManifest(id, version), "")

\* fs.Repository.GetManifest: the error of os.Open is returned as it is.
fsGetManifest(x, id, version) ==
    IF Faulty(x) THEN Ret(Tick(x), Nil, "io")
    ELSE IF SrcManifest(id, version) = Nil THEN Ret(Tick(x), Nil, "notExist")
    ELSE Ret(Tick(x), SrcManifest(id, version), "")

GetManifest(x, id, version) ==
    IF kind = "memory" THEN Ret(x, SrcManifest(id, version), "")
    ELSE IF kind = "http" THEN httpGetManifest(x, id, version)
    ELSE fsGetManifest(x, id, version)

\* memory: a missing file is (nil, nil); fs: the error of os.Open; http: the status.
GetFile(x, id, version, file) ==
    IF kind = "memory"
    THEN IF SrcFile(id, version, file) = NoFile THEN Ret(x, Nil, "")
         ELSE Ret(x, Reader(SrcFile(id, version, file)), "")
    ELSE IF Faulty(x) THEN Ret(Tick(x), Nil, "io")
    ELSE IF SrcFile(id, version, file) = NoFile
         THEN Ret(Tick(x), Nil, IF kind = "http" THEN "status" ELSE "notExist")
    ELSE Ret(Tick(x), Reader(SrcFile(id, version, file)), "")

(***************************************************************************)
(* pak.Manager.  An operation ends "ok" (nil error), "err" (an error is    *)
(* returned) or "panic" (a nil dereference ends the goroutine).  The steps *)
(* of install are operators that take the result of the call before them.  *)
(***************************************************************************)
Done(x, out, err, val) == [x |-> x, out |-> out, err |-> err, val |-> val]

\* if err != nil { return err }; return nil
ErrOrOk(r) ==
    IF r.err # "" THEN Done(r.x, "err", r.err, Nil) ELSE Done(r.x, "ok", "", Nil)

InstallSpec(id, version) == [ID |-> id, Version |-> version]

\* toInstall.Version as it stands after the resolution
Resolved(x, version) == [x EXCEPT !.resolved = Append(@, version)]

\* Variant: the existing version is left in place.
uninstallNothing(x, id) == Ret(x, Nil, "")

uninstall(x, id) == Delete(x, id)

\* downloadFile once GetFile returned g
writeFetched(g, i, id, version, file) ==
    IF g.err # "" THEN Done(g.x, "err", g.err, Nil)
    ELSE IF g.val = Nil THEN Done(g.x, "panic", "nil", Nil)   \* defer rc.Close()
    ELSE ErrOrOk(Call("Write", i, Write(g.x, id, version, file, g.val.data)))

downloadFile(x, i, id, version, file) ==
    writeFetched(Call("GetFile", i, GetFile(x, id, version, file)), i, id, version, file)

\* Variant: the loop goes on to the next file after one failed.
RECURSIVE downloadFilesAll(_, _, _, _, _, _)
downloadFilesAll(r, i, id, version, files, k) ==
    IF k > Len(files) THEN r
    ELSE downloadFilesAll(downloadFile(r.x, i, id, version, files[k]), i, id, version,
                          files, k + 1)

\* The download loop of install from the k-th file of the manifest on; r is the
\* outcome of the file before it.
RECURSIVE downloadFiles(_, _, _, _, _, _)
downloadFiles(r, i, id, version, files, k) ==
    IF r.out # "ok" THEN r
    ELSE IF k > Len(files) THEN r
    ELSE downloadFiles(downloadFile(r.x, i, id, version, files[k]), i, id, version, files,
                       k + 1)

\* Variant: the manifest is not written.
skipManifest(w, i, manifest) == w

\* install once every file is downloaded (or one failed) as w
writeInstalled(w, i, manifest) ==
    IF w.out # "ok" THEN w
    ELSE ErrOrOk(Call("WriteManifest", i, WriteManifest(w.x, manifest)))

\* install once the existing version is uninstalled as d
downloadAll(d, i, id, version, manifest) ==
    IF d.err # "" THEN Done(d.x, "err", d.err, Nil)
    ELSE writeInstalled(downloadFiles(Done(d.x, "ok", "", Nil), i, id, version,
                                      manifest.Files, 1), i, manifest)

\* install once GetManifest returned m
replaceExisting(m, i, id, version, existing) ==
    IF m.err # "" THEN Done(m.x, "err", m.err, Nil)
    ELSE IF m.val = Nil THEN Done(m.x, "err", "ManifestNotFoundError", Nil)
    ELSE downloadAll(IF existing # Nil THEN Call("Delete", i, uninstall(m.x, id))
                     ELSE Ret(m.x, Nil, ""),
                     i, id, version, m.val)

\* Variant: the installed version is not compared with the requested one.
installVersionAlways(x, i, id, version, existing, upgrade) ==
    IF upgrade /\ existing = Nil THEN Done(x, "panic", "nil", Nil)
    ELSE replaceExisting(Call("GetManifest", i, GetManifest(x, id, version)),
                         i, id, version, existing)

\* install once the existing version is uninstalled first as d
fetchAfterDelete(d, i, id, version) ==
    IF d.err # "" THEN Done(d.x, "err", d.err, Nil)
    ELSE replaceExisting(Call("GetManifest", i, GetManifest(d.x, id, version)),
                         i, id, version, Nil)

\* Variant: the existing version is uninstalled before the manifest is fetched.
installVersionDeleteFirst(x, i, id, version, existing, upgrade) ==
    IF existing # Nil /\ existing.Version = version THEN Done(x, "ok", "", Nil)
    ELSE IF upgrade /\ existing = Nil THEN Done(x, "panic", "nil", Nil)
    ELSE fetchAfterDelete(IF existing # Nil THEN Call("Delete", i, uninstall(x, id))
                          ELSE Ret(x, Nil, ""),
                          i, id, version)

\* install once toInstall.Version is resolved to version
installVersion(x, i, id, version, existing, upgrade) ==
    IF existing # Nil /\ existing.Version = version THEN Done(x, "ok", "", Nil)
    ELSE IF upgrade /\ existing = Nil
         THEN Done(x, "panic", "nil", Nil)     \* existing.Version, an argument of Infof
    ELSE replaceExisting(Call("GetManifest", i, GetManifest(x, id, version)),
                         i, id, version, existing)

\* Variant: the resolved version is not compared with the installed one.
resolveLatestAlways(s, i, id, existing, upgrade) ==
    IF s.err # "" THEN Done(s.x, "err", s.err, Nil)
    ELSE IF s.val = Nil THEN Done(s.x, "err", "ErrSpecNotFound", Nil)
    ELSE installVersionAlways(Resolved(s.x, s.val.CurrentVersion), i, id,
                              s.val.CurrentVersion, existing, upgrade)

\* install once GetSpec returned s
resolveLatest(s, i, id, existing, upgrade) ==
    IF s.err # "" THEN Done(s.x, "err", s.err, Nil)
    ELSE IF s.val = Nil THEN Done(s.x, "err", "ErrSpecNotFound", Nil)
    ELSE installVersion(Resolved(s.x, s.val.CurrentVersion), i, id, s.val.CurrentVersion,
                        existing, upgrade)

\* install once GetInstalledManifest returned e
resolveVersion(e, i, toInstall, upgrade) ==
    IF e.err # "" THEN Done(e.x, "err", e.err, Nil)
    ELSE IF toInstall.Version = ""
         THEN resolveLatest(Call("GetSpec", i, GetSpec(e.x, toInstall.ID)), i, toInstall.ID,
                            e.val, upgrade)
    ELSE installVersion(Resolved(e.x, toInstall.Version), i, toInstall.ID,
                        toInstall.Version, e.val, upgrade)

\* Variant: the id is checked after the installed manifest is looked up.
installLate(x, i, toInstall, upgrade) ==
    IF toInstall.ID = ""
    THEN Done(Call("GetInstalledManifest", i, Ret(Tick(x), Nil, "")).x,
              "err", "ErrInvalidInstallSpec", Nil)
    ELSE resolveVersion(Call("GetInstalledManifest", i,
                             GetInstalledManifest(x, toInstall.ID)),
                        i, toInstall, upgrade)

\* Manager.install for the i-th argument of the call.
install(x, i, toInstall, upgrade) ==
    IF toInstall.ID = "" THEN Done(x, "err", "ErrInvalidInstallSpec", Nil)
    ELSE resolveVersion(Call("GetInstalledManifest", i,
                             GetInstalledManifest(x, toInstall.ID)),
                        i, toInstall, upgrade)

\* Variant: the loop goes on after a spec failed.
RECURSIVE installAllContinue(_, _, _, _)
installAllContinue(r, specs, k, upgrade) ==
    IF k > Len(specs) THEN r
    ELSE installAllContinue(install(r.x, k, specs[k], upgrade), specs, k + 1, upgrade)

\* The loop of Install and of Upgrade from the k-th spec on; r is the outcome of
\* the spec before it.
RECURSIVE installAll(_, _, _, _)
installAll(r, specs, k, upgrade) ==
    IF r.out # "ok" THEN r
    ELSE IF k > Len(specs) THEN r
    ELSE installAll(install(r.x, k, specs[k], upgrade), specs, k + 1, upgrade)

ManagerInstall(x, specs) == installAll(Done(x, "ok", "", Nil), specs, 1, FALSE)

\* Variant: the specs keep the installed versions.
upgradeInstalledPinned(l) ==
    IF l.err # "" THEN Done(l.x, "err", l.err, Nil)
    ELSE installAll(Done(l.x, "ok", "", Nil),
                    [k \in 1..Len(l.val) |-> InstallSpec(l.val[k].ID, l.val[k].Version)],
                    1, TRUE)

\* Upgrade of every installed pak, once ListInstalled returned l
upgradeInstalled(l) ==
    IF l.err # "" THEN Done(l.x, "err", l.err, Nil)
    ELSE installAll(Done(l.x, "ok", "", Nil),
                    [k \in 1..Len(l.val) |-> InstallSpec(l.val[k].ID, "")], 1, TRUE)

ManagerUpgrade(x, specs) ==
    IF Len(specs) = 0 THEN upgradeInstalled(Call("ListInstalled", 0, ListInstalled(x)))
    ELSE installAll(Done(x, "ok", "", Nil), specs, 1, TRUE)

\* The loop of Uninstall from the k-th id on; r is the outcome of the id before it.
RECURSIVE uninstallAll(_, _, _)
uninstallAll(r, ids, k) ==
    IF r.out # "ok" THEN r
    ELSE IF k > Len(ids) THEN r
    ELSE uninstallAll(ErrOrOk(Call("Delete", k, uninstall(r.x, ids[k]))), ids, k + 1)

ManagerUninstall(x, ids) == uninstallAll(Done(x, "ok", "", Nil), ids, 1)

UpgradableSpec(pak, spec) ==
    [ID |-> pak.ID, CurrentVersion |-> pak.Version, LatestVersion |-> spec.CurrentVersion]

\* Variant: an upgradable pak is put in front of the list.
compareVersionPrepend(s, pak, upgradable) ==
    IF s.err # "" THEN Done(s.x, "err", s.err, Nil)
    ELSE IF s.val = Nil THEN Done(s.x, "panic", "nil", Nil)
    ELSE IF s.val.CurrentVersion # pak.Version
         THEN Done(s.x, "ok", "", <<UpgradableSpec(pak, s.val)>> \o upgradable)
    ELSE Done(s.x, "ok", "", upgradable)

\* One round of the loop of Upgradable: the installed pak, GetSpec returned s.
compareVersion(s, pak, upgradable) ==
    IF s.err # "" THEN Done(s.x, "err", s.err, Nil)
    ELSE IF s.val = Nil THEN Done(s.x, "panic", "nil", Nil)   \* spec.CurrentVersion
    ELSE IF s.val.CurrentVersion # pak.Version
         THEN Done(s.x, "ok", "", Append(upgradable, UpgradableSpec(pak, s.val)))
    ELSE Done(s.x, "ok", "", upgradable)

\* The loop of Upgradable from the k-th installed manifest on; r is the outcome
\* of the round before it, r.val the list so far.
RECURSIVE upgradableFrom(_, _, _)
upgradableFrom(r, installed, k) ==
    IF r.out # "ok" THEN r
    ELSE IF k > Len(installed) THEN r
    ELSE upgradableFrom(compareVersion(Call("GetSpec", k, GetSpec(r.x, installed[k].ID)),
                                       installed[k], r.val),
                        installed, k + 1)

\* Upgradable once ListInstalled returned l
upgradableOf(l) ==
    IF l.err # "" THEN Done(l.x, "err", l.err, Nil)
    ELSE upgradableFrom(Done(l.x, "ok", "", <<>>), l.val, 1)

ManagerUpgradable(x) == upgradableOf(Call("ListInstalled", 0, ListInstalled(x)))

\* fs.Repository.List, http.Repository.List: the index; memory: a copy of it
List(x) ==
    IF kind = "memory" THEN Ret(x, index, "")
    ELSE IF kind = "http" THEN httpGetIndex(x)
    ELSE fsGetIndex(x)

\* Manager.List once the source's List returned l
listed(l) == IF l.err # "" THEN Done(l.x, "err", l.err, Nil) ELSE Done(l.x, "ok", "", l.val)

ManagerList(x) == listed(Call("List", 0, List(x)))

(***************************************************************************)
(* The state machine.                                                      *)
(***************************************************************************)
EmptyStore ==
    [manifest |-> [id \in Ids |-> Absent],
     files    |-> [id \in Ids |-> [f \in FileNames |-> NoFile]]]

\* What an operation leaves in last; undone is the Install before it, if that one
\* failed after it had deleted the installed version.
Record(op, args, pre, failAt, r) ==
    [op |-> op, args |-> args, pre |-> pre, cache0 |-> cache, out |-> r.out, err |-> r.err,
     val |-> r.val, calls |-> r.x.calls, resolved |-> r.x.resolved,
     fetches |-> r.x.fetches, undone |-> last.undone,
     fault |-> IF failAt > 0 /\ r.x.n >= failAt THEN failAt ELSE 0]

NoOp ==
    [op |-> "none", args |-> <<>>, pre |-> EmptyStore, cache0 |-> Nil, out |-> "ok",
     err |-> "", val |-> Nil, calls |-> <<>>, resolved |-> <<>>, fetches |-> 0,
     undone |-> <<>>, fault |-> 0]

\* The operation l is an Install of one spec that returned an error after its
\* Delete of the installed version succeeded.
Undone(l) ==
    /\ l.op = "Install" /\ Len(l.args) = 1 /\ l.out = "err"
    /\ \E j \in DOMAIN l.calls : l.calls[j].op = "Delete" /\ l.calls[j].ok

InitWith(k) ==
    /\ kind = k
    /\ index = [a |-> "v1", b |-> NoSpec]
    /\ local = EmptyStore
    /\ cache = Nil
    /\ ttl \in (IF k = "http" THEN 1..MaxTTL ELSE {0})
    /\ now = 0
    /\ last = NoOp

Idle == last.op = "none"

InstallSpecs ==
    {InstallSpec(id, v) : id \in Ids, v \in Versions \cup {""}} \cup {InstallSpec("", "")}

Single(S) == {<<s>> : s \in S}
Batches(S) == UNION {[1..n -> S] : n \in 1..MaxBatch}

\* The fallible steps an operation that ended as r executed: the steps that can fail.
Steps(r) == 0..r.x.n

\* The effect of an operation that ended as r.
Effect(op, args, failAt, r) ==
    /\ local' = r.x.local
    /\ cache' = r.x.cache
    /\ last' = Record(op, args, local, failAt, r)
    /\ UNCHANGED <<kind, index, ttl, now>>

InstallOf(S) ==
    /\ Idle
    /\ \E specs \in S : \E failAt \in Steps(ManagerInstall(Start(0), specs)) :
          Effect("Install", specs, failAt, ManagerInstall(Start(failAt), specs))

UpgradeOf(S) ==
    /\ Idle
    /\ \E specs \in S : \E failAt \in Steps(ManagerUpgrade(Start(0), specs)) :
          Effect("Upgrade", specs, failAt, ManagerUpgrade(Start(failAt), specs))

UninstallOf(S) ==
    /\ Idle
    /\ \E ids \in S : \E failAt \in Steps(ManagerUninstall(Start(0), ids)) :
          Effect("Uninstall", [k \in 1..Len(ids) |-> InstallSpec(ids[k], "")], failAt,
                 ManagerUninstall(Start(failAt), ids))

Install   == InstallOf(Single(InstallSpecs))
Upgrade   == UpgradeOf({<<>>} \cup Single(InstallSpecs))
Uninstall == UninstallOf(Single(Ids))

Upgradable ==
    /\ Idle
    /\ \E failAt \in Steps(ManagerUpgradable(Start(0))) :
          Effect("Upgradable", <<>>, failAt, ManagerUpgradable(Start(failAt)))

ListAll ==
    /\ Idle
    /\ \E failAt \in Steps(ManagerList(Start(0))) :
          Effect("List", <<>>, failAt, ManagerList(Start(failAt)))

\* The caller has the outcome of the operation; a panic ends the process, the
\* next command starts a new one over the same local store.
Return ==
    /\ ~Idle
    /\ last' = NoOp
    /\ UNCHANGED <<kind, index, local, cache, ttl, now>>

\* Return, with the memory of an Install that left its replace undone: the next
\* operation knows whether it comes right after one.
ReturnUndone ==
    /\ ~Idle
    /\ last' = [NoOp EXCEPT !.undone = IF Undone(last) THEN last.args ELSE <<>>]
    /\ UNCHANGED <<kind, index, local, cache, ttl, now>>

\* The publisher of the source releases a new current version or lists a package.
Publish ==
    /\ Idle
    /\ \E idx \in Indexes :
          /\ idx # index
          /\ \A id \in Ids : index[id] # NoSpec => idx[id] # NoSpec
          /\ index' = idx
    /\ UNCHANGED <<kind, local, cache, ttl, now, last>>

\* Time passes.
Advance ==
    /\ Idle
    /\ now < MaxTime
    /\ now' = now + 1
    /\ UNCHANGED <<kind, index, local, cache, ttl, last>>

\* Batch calls: several specs or ids in one call.
BatchSpecs == {InstallSpec(id, v) : id \in Ids, v \in {"", "v1", "v2"}}
InstallBatch   == InstallOf(Batches(BatchSpecs \cup {InstallSpec("", "")}))
UninstallBatch == UninstallOf(Batches(Ids))

\* The Manager over the file-system source, one spec or id a call.
Init == InitWith("fs")
Next == Install \/ Upgrade \/ Uninstall \/ Upgradable \/ ListAll \/ Return \/ Publish
Spec == Init /\ [][Next]_vars

\* The Manager over the file-system source, batch calls.
NextBatch == InstallBatch \/ UninstallBatch \/ Return \/ Publish
SpecBatch == Init /\ [][NextBatch]_vars

\* The Manager over the file-system source, an operation knowing of the failed
\* replace before it.
NextRetry == Install \/ Uninstall \/ ReturnUndone \/ Publish
SpecRetry == Init /\ [][NextRetry]_vars

\* The Manager over the memory source.
InitMemory == InitWith("memory")
NextMemory == Install \/ Upgrade \/ Uninstall \/ Upgradable \/ ListAll \/ Return \/ Publish
SpecMemory == InitMemory /\ [][NextMemory]_vars

\* The Manager over the HTTP source with its index cache, and a clock.
InitHttp == InitWith("http")
InstallLatest == InstallOf(Single({InstallSpec(id, "") : id \in Ids}))
NextHttp == InstallLatest \/ Upgradable \/ ListAll \/ Return \/ Publish \/ Advance
SpecHttp == InitHttp /\ [][NextHttp]_vars

(***************************************************************************)
(* Properties.  They are stated over last, the operation that just ended:  *)
(* last.pre is the local store and last.cache0 the cached index it started *)
(* from; index and now do not change while an operation runs.              *)
(***************************************************************************)
\* The store holds a manifest for id that decodes.
Decoded(store, id) == store.manifest[id] # Absent /\ store.manifest[id] # Corrupt
InstalledManifest(store, id) == yamlReadManifest(store.manifest[id])
InstalledVersion(store, id) == InstalledManifest(store, id).Version
Listed(m) == {m.Files[k] : k \in DOMAIN m.Files}
Present(store, id, files) == \A f \in files : store.files[id][f] # NoFile
CalledOps == {last.calls[k].op : k \in DOMAIN last.calls}
\* The operation op was called with one argument, a spec with an id.
One(op) == last.op = op /\ Len(last.args) = 1 /\ last.args[1].ID # ""
Arg == last.args[1].ID
Pos(id) == CHOOSE k \in DOMAIN IdOrder : IdOrder[k] = id

\* A successful Install(id, v2) of an id installed at another version v1.
ReplaceCase ==
    /\ One("Install") /\ last.out = "ok"
    /\ Decoded(last.pre, Arg)
    /\ InstalledVersion(last.pre, Arg) # last.resolved[1]

\* C1 as stated: a successful Install(id, v2) over an installed v1 # v2 leaves the
\* v2 manifest and, under id, exactly the files of v2's manifest.
C1_ExactlyNewFiles ==
    ReplaceCase =>
        LET new == SrcManifest(Arg, last.resolved[1]) IN
        /\ local.manifest[Arg] = yamlWriteManifest(new)
        /\ \A f \in FileNames :
              local.files[Arg][f] =
                  IF f \in Listed(new) THEN SrcFile(Arg, new.Version, f) ELSE NoFile

\* C1, amended: a successful Install(id, v2) over an installed v1 # v2 leaves the
\* v2 manifest, every file v2's manifest lists with the source's content, none of
\* the files only v1's manifest listed, and every file under id that neither
\* manifest lists as it was before the call.
C1_ReplacesListedFiles ==
    ReplaceCase =>
        LET new == SrcManifest(Arg, last.resolved[1])
            old == InstalledManifest(last.pre, Arg) IN
        /\ local.manifest[Arg] = yamlWriteManifest(new)
        /\ \A f \in FileNames :
              local.files[Arg][f] =
                  IF f \in Listed(new) THEN SrcFile(Arg, new.Version, f)
                  ELSE IF f \in Listed(old) THEN NoFile
                  ELSE last.pre.files[Arg][f]

\* A replace that removed a file only v1 listed and left a file neither lists.
C1_Witness ==
    /\ ReplaceCase
    /\ \E f \in Listed(InstalledManifest(last.pre, Arg)) :
          /\ f \notin Listed(SrcManifest(Arg, last.resolved[1]))
          /\ local.files[Arg][f] = NoFile
    /\ \E f \in FileNames :
          /\ f \notin Listed(InstalledManifest(last.pre, Arg))
          /\ f \notin Listed(SrcManifest(Arg, last.resolved[1]))
          /\ local.files[Arg][f] # NoFile

\* Install(id, v) with an explicit v of an id installed at v.
SameVersionCase ==
    /\ One("Install") /\ last.args[1].Version # ""
    /\ Decoded(last.pre, Arg)
    /\ InstalledVersion(last.pre, Arg) = last.args[1].Version

\* C2: Install(id, v) with an explicit v of an id installed at v calls no source
\* operation and no Delete, Write or WriteManifest, leaves the local store as it
\* was, and succeeds unless reading the installed manifest fails.
C2_SameVersionNoOp ==
    SameVersionCase =>
        /\ CalledOps \subseteq {"GetInstalledManifest"}
        /\ local = last.pre
        /\ last.fault = 0 => last.out = "ok"

\* The no-op succeeded although the source lists another version.
C2_Witness ==
    /\ SameVersionCase /\ last.out = "ok"
    /\ Len(last.calls) = 1
    /\ index[Arg] # last.args[1].Version

\* A successful Install(id, "").
LatestCase == One("Install") /\ last.args[1].Version = "" /\ last.out = "ok"

\* C3 as stated: a successful Install(id, "") leaves id installed at the
\* currentVersion the source's index has for id when the call is made, for the
\* caching HTTP source too.
C3_InstallsLiveCurrentVersion ==
    LatestCase => Decoded(local, Arg) /\ InstalledVersion(local, Arg) = index[Arg]

\* The index a read is served from when the cached index is c.
Served(c) == IF c # Nil /\ now - c.time <= ttl THEN c.index ELSE index

\* C3, amended: a successful Install(id, "") leaves id installed at the
\* currentVersion of the index the source serves: the cached index while it is
\* no older than CacheTTL, the source's index at the time of the call otherwise.
C3_InstallsServedCurrentVersion ==
    LatestCase =>
        Decoded(local, Arg) /\ InstalledVersion(local, Arg) = Served(last.cache0)[Arg]

\* The cached index had expired and the call replaced v1 by the new currentVersion.
C3_Witness ==
    /\ LatestCase
    /\ last.cache0 # Nil /\ now - last.cache0.time > ttl
    /\ last.cache0.index[Arg] # index[Arg]
    /\ Decoded(last.pre, Arg) /\ InstalledVersion(last.pre, Arg) = last.cache0.index[Arg]
    /\ InstalledVersion(local, Arg) = index[Arg]

\* Uninstall(id) of an id that has a manifest.
UninstallCase == One("Uninstall") /\ Decoded(last.pre, Arg)

\* C4: Uninstall(id) of an installed id changes nothing of any other id and no
\* file under id that the manifest does not list; when it succeeds the listed
\* files and the manifest are gone; it succeeds when no step fails and the
\* listed files are there.
C4_UninstallExact ==
    UninstallCase =>
        LET old == Listed(InstalledManifest(last.pre, Arg)) IN
        /\ \A j \in Ids \ {Arg} :
              /\ local.manifest[j] = last.pre.manifest[j]
              /\ local.files[j] = last.pre.files[j]
        /\ \A f \in FileNames \ old : local.files[Arg][f] = last.pre.files[Arg][f]
        /\ last.out = "ok" =>
              /\ local.manifest[Arg] = Absent
              /\ \A f \in old : local.files[Arg][f] = NoFile
        /\ (last.fault = 0 /\ Present(last.pre, Arg, old)) => last.out = "ok"

\* An uninstall that succeeded, left an unlisted file and another installed id.
C4_Witness ==
    /\ UninstallCase /\ last.out = "ok"
    /\ \E f \in FileNames : local.files[Arg][f] # NoFile
    /\ \E j \in Ids \ {Arg} : Decoded(local, j)

\* C5: Uninstall(id) of an id with no manifest changes nothing and succeeds
\* unless reading the manifest fails.
C5_UninstallAbsentNoOp ==
    (One("Uninstall") /\ last.pre.manifest[Arg] = Absent) =>
        /\ local = last.pre
        /\ last.fault = 0 => last.out = "ok"

\* Such an uninstall succeeded.
C5_Witness ==
    /\ One("Uninstall") /\ last.pre.manifest[Arg] = Absent
    /\ last.out = "ok" /\ Len(last.calls) = 1

\* C6, for the operation it names: Upgradable completes with success or with an
\* error value in every reachable state, an installed id without a catalog entry
\* included.
C6_UpgradableCompletes == last.op = "Upgradable" => last.out \in {"ok", "err"}

\* C7: Upgrade(spec) runs the steps of Install(spec), with the same calls, the
\* same return value and the same local store after it, for an id that is not
\* installed too.
C7_UpgradeAsInstall ==
    (last.op = "Upgrade" /\ Len(last.args) = 1) =>
        LET r == ManagerInstall(StartFrom(last.pre, last.cache0, last.fault), last.args) IN
        /\ last.out = r.out
        /\ last.err = r.err
        /\ last.calls = r.x.calls
        /\ local = r.x.local

\* C8: the list a successful Upgradable returns has one entry for each installed
\* id whose version differs from the currentVersion of the source, with the
\* installed and the current version, in the order ListInstalled returns the
\* manifests; Upgradable succeeds when no step fails and every installed id is
\* in the source's index.
C8_UpgradableList ==
    last.op = "Upgradable" =>
        /\ last.out = "ok" =>
              /\ \A id \in Ids :
                    (\E k \in DOMAIN last.val : last.val[k].ID = id)
                        <=> (Decoded(local, id) /\ InstalledVersion(local, id) # index[id])
              /\ \A k \in DOMAIN last.val :
                    last.val[k] = [ID |-> last.val[k].ID,
                                   CurrentVersion |-> InstalledVersion(local, last.val[k].ID),
                                   LatestVersion |-> index[last.val[k].ID]]
              /\ \A j, k \in DOMAIN last.val : j < k => Pos(last.val[j].ID) < Pos(last.val[k].ID)
        /\ (last.fault = 0 /\ \A id \in Ids : Decoded(local, id) => index[id] # NoSpec)
              => last.out = "ok"

\* Two installed ids are upgradable and both are listed.
C8_Witness == last.op = "Upgradable" /\ last.out = "ok" /\ Len(last.val) = 2

\* C9: Install(spec1, ..., specN) works on the specs in order and stops at the
\* first that fails: a failed call is the last call and the batch returns an
\* error, an invalid spec or an id the source does not list ends the batch with
\* an error and no call for a later spec, and a batch that succeeds worked on
\* every spec.
C9_BatchStopsAtFailure ==
    last.op = "Install" =>
        /\ \A j, k \in DOMAIN last.calls : j < k => last.calls[j].i <= last.calls[k].i
        /\ \A j \in DOMAIN last.calls :
              ~last.calls[j].ok => j = Len(last.calls) /\ last.out = "err"
        /\ \A k \in DOMAIN last.args :
              last.args[k].ID = "" =>
                  /\ last.out = "err"
                  /\ \A j \in DOMAIN last.calls : last.calls[j].i < k
        /\ \A j \in DOMAIN last.calls :
              (/\ last.calls[j].op = "GetSpec" /\ last.calls[j].ok
               /\ index[last.args[last.calls[j].i].ID] = NoSpec)
                  => j = Len(last.calls) /\ last.out = "err"
        /\ last.out = "ok" =>
              \A k \in DOMAIN last.args : \E j \in DOMAIN last.calls : last.calls[j].i = k

\* The first of two specs failed after it changed the store; the second is valid.
C9_Witness ==
    /\ last.op = "Install" /\ Len(last.args) = 2 /\ last.out = "err"
    /\ last.args[2].ID # ""
    /\ local # last.pre
    /\ \A j \in DOMAIN last.calls : last.calls[j].i = 1

\* The last spec of the batch that names id.
LastNaming(id) ==
    CHOOSE k \in DOMAIN last.args :
        /\ last.args[k].ID = id
        /\ \A j \in DOMAIN last.args : last.args[j].ID = id => j <= k

\* The call wrote the manifest of id: one of its specs installed id.
Wrote(id) ==
    \E j \in DOMAIN last.calls :
        last.calls[j].op = "WriteManifest" /\ last.args[last.calls[j].i].ID = id

\* C10 as stated: after a batch Install that succeeds, every id it names has a
\* manifest at the version the last spec naming it resolved to, and every file
\* that manifest lists is in the local store.
C10_BatchInstalled ==
    (last.op = "Install" /\ last.out = "ok") =>
        \A k \in DOMAIN last.args :
            LET id == last.args[k].ID IN
            /\ Decoded(local, id)
            /\ InstalledVersion(local, id) = last.resolved[LastNaming(id)]
            /\ Present(local, id, Listed(InstalledManifest(local, id)))

\* C10, amended: after a batch Install that succeeds, every id it names has a
\* manifest at the version the last spec naming it resolved to; if the call
\* installed id, every file that manifest lists is in the local store; if every
\* spec naming id found it installed at the version asked for, the manifest and
\* the files of id are as they were before the call, listed files that were
\* missing included.
C10_BatchInstalledOrLeft ==
    (last.op = "Install" /\ last.out = "ok") =>
        \A k \in DOMAIN last.args :
            LET id == last.args[k].ID IN
            /\ Decoded(local, id)
            /\ InstalledVersion(local, id) = last.resolved[LastNaming(id)]
            /\ IF Wrote(id)
               THEN Present(local, id, Listed(InstalledManifest(local, id)))
               ELSE /\ local.manifest[id] = last.pre.manifest[id]
                    /\ local.files[id] = last.pre.files[id]

\* A batch installed one id twice, at two versions, and the second stands.
C10_Witness ==
    /\ last.op = "Install" /\ last.out = "ok" /\ Len(last.args) = 2
    /\ last.args[1].ID = last.args[2].ID
    /\ last.resolved[1] # last.resolved[2]
    /\ InstalledVersion(local, last.args[2].ID) = last.resolved[2]
    /\ Present(local, last.args[2].ID, Listed(InstalledManifest(local, last.args[2].ID)))

\* The reads of the source's index the operation made.
Reads == {k \in DOMAIN last.calls : last.calls[k].op \in {"GetSpec", "List"}}
Running == last.op # "none"
\* The cached index c is no older than CacheTTL; it is older.
Valid(c) == c # Nil /\ now - c.time <= ttl
Expired(c) == c # Nil /\ now - c.time > ttl

\* C11: an operation on the HTTP source that starts with an index cached at t
\* and now - t <= CacheTTL makes no fetch, leaves the cache as it is, and its
\* reads are served the cached index: List returns it, Install(id, "") resolves
\* to its currentVersion, Upgradable reports its currentVersion as the latest.
C11_CacheHit ==
    (Running /\ Valid(last.cache0)) =>
        /\ last.fetches = 0
        /\ cache = last.cache0
        /\ \A k \in Reads : last.calls[k].ok
        /\ last.op = "List" => last.out = "ok" /\ last.val = last.cache0.index
        /\ (One("Install") /\ last.args[1].Version = "" /\ Len(last.resolved) = 1)
              => last.resolved[1] = last.cache0.index[Arg]
        /\ (last.op = "Upgradable" /\ last.out = "ok")
              => \A k \in DOMAIN last.val :
                    last.val[k].LatestVersion = last.cache0.index[last.val[k].ID]

\* List at the last moment of the TTL returned the cached index, not the source's.
C11_Witness ==
    /\ last.op = "List" /\ Valid(last.cache0)
    /\ now - last.cache0.time = ttl
    /\ last.cache0.index # index
    /\ last.val = last.cache0.index

\* C12: an operation that reads the HTTP source's index with an index cached at
\* t and now - t > CacheTTL makes exactly one fetch; after a fetch that succeeds
\* the cache holds the source's index with the time of the fetch, after one that
\* fails it is empty; with now - t = CacheTTL nothing is fetched and the cache
\* stays.
C12_CacheExpiry ==
    /\ (Running /\ Expired(last.cache0) /\ Reads # {}) =>
          /\ last.fetches = 1
          /\ cache = IF \A k \in Reads : last.calls[k].ok
                     THEN [index |-> index, time |-> now]
                     ELSE Nil
    /\ (Running /\ last.cache0 # Nil /\ now - last.cache0.time = ttl) =>
          /\ last.fetches = 0
          /\ cache = last.cache0

\* Upgradable read the index twice after the expiry and fetched it once.
C12_Witness ==
    /\ last.op = "Upgradable" /\ Expired(last.cache0)
    /\ Cardinality(Reads) = 2
    /\ last.fetches = 1
    /\ cache = [index |-> index, time |-> now]

\* C13: when the fetch of the HTTP source's index fails, the operation returns
\* an error and the cache is empty, an expired index is not kept; an operation
\* that reads the index with an empty cache fetches it.
C13_NoNegativeCaching ==
    /\ (Running /\ \E k \in Reads : ~last.calls[k].ok) =>
          /\ last.out = "err"
          /\ last.fetches = 1
          /\ cache = Nil
    /\ (Running /\ last.cache0 = Nil /\ Reads # {}) => last.fetches = 1

\* The fetch failed after the cached index had expired, and nothing is cached.
C13_Witness ==
    /\ Running /\ Expired(last.cache0)
    /\ \E k \in Reads : ~last.calls[k].ok
    /\ cache = Nil

\* The operation made the call op and it succeeded.
Succeeded(op) == \E j \in DOMAIN last.calls : last.calls[j].op = op /\ last.calls[j].ok

\* C14: when id is installed at v1 and Install(id, v2) fails after the old
\* version was deleted (a file fetch, a file write or WriteManifest fails), the
\* call returns an error and the local store holds no manifest for id.
C14_PartialReplaceUninstalled ==
    (One("Install") /\ Decoded(last.pre, Arg) /\ Succeeded("Delete") /\ last.out # "ok") =>
        /\ last.out = "err"
        /\ local.manifest[Arg] = Absent

\* The version Install(spec) is to install, and whether the source has its
\* manifest and every file the manifest lists.
Target(spec) == IF spec.Version # "" THEN spec.Version ELSE index[spec.ID]
InSource(id, v) ==
    /\ SrcManifest(id, v) # Nil
    /\ \A f \in Listed(SrcManifest(id, v)) : SrcFile(id, v, f) # NoFile

\* C15: the Install(id, v) that is run again right after it failed between the
\* delete of the old version and the write of the manifest, with no step
\* failing and v in the source, finds no manifest, deletes nothing, succeeds and
\* leaves id installed at v with every file of v's manifest.
C15_RetryRecovers ==
    (/\ One("Install") /\ last.undone = last.args
     /\ last.fault = 0 /\ InSource(Arg, Target(last.args[1]))) =>
        /\ last.out = "ok"
        /\ "Delete" \notin CalledOps
        /\ Decoded(local, Arg)
        /\ InstalledVersion(local, Arg) = Target(last.args[1])
        /\ Present(local, Arg, Listed(InstalledManifest(local, Arg)))

\* C16: Uninstall(id) of an id that has a manifest, with no step failing, ends
\* with the manifest and every file it lists removed, also when a listed file
\* is missing already.
C16_DeleteCompletes ==
    (One("Uninstall") /\ Decoded(last.pre, Arg) /\ last.fault = 0) =>
        /\ last.out = "ok"
        /\ local.manifest[Arg] = Absent
        /\ \A f \in Listed(InstalledManifest(last.pre, Arg)) : local.files[Arg][f] = NoFile

\* C17: Install and Upgrade of a spec with an empty id return
\* ErrInvalidInstallSpec, with no call to the local store or to the source, and
\* leave the local store as it was.
C17_InvalidSpec ==
    (last.op \in {"Install", "Upgrade"} /\ Len(last.args) = 1 /\ last.args[1].ID = "") =>
        /\ last.out = "err" /\ last.err = "ErrInvalidInstallSpec"
        /\ last.calls = <<>>
        /\ local = last.pre

\* Upgrade of the empty spec was refused over a store that has a package.
C17_Witness ==
    /\ last.op = "Upgrade" /\ Len(last.args) = 1 /\ last.args[1].ID = ""
    /\ last.err = "ErrInvalidInstallSpec"
    /\ \E id \in Ids : Decoded(local, id)

\* The errors that tell the caller that something is not in the source.
NotFound == {"ErrSpecNotFound", "ManifestNotFoundError", "notExist"}

\* C18: an Install that fails at a source call with no transport or storage
\* failure fails with ErrSpecNotFound when the catalog entry is absent, with
\* ManifestNotFoundError when the manifest is absent and with a not-found error
\* when a file is absent; when a step fails, the error is not a not-found one.
C18_NotFoundDistinct ==
    (One("Install") /\ last.out = "err" /\ last.calls # <<>>) =>
        LET c == last.calls[Len(last.calls)] IN
        /\ last.fault # 0 => last.err \notin NotFound
        /\ (last.fault = 0 /\ c.op = "GetSpec") => last.err = "ErrSpecNotFound"
        /\ (last.fault = 0 /\ c.op = "GetManifest") => last.err = "ManifestNotFoundError"
        /\ (last.fault = 0 /\ c.op = "GetFile") => last.err \in NotFound

\* C19: an Install whose target manifest lists a file that the source does not
\* hold returns an error, whatever the source.
C19_MissingFileIsError ==
    (/\ One("Install") /\ Len(last.resolved) = 1
     /\ SrcManifest(Arg, last.resolved[1]) # Nil
     /\ ~InSource(Arg, last.resolved[1])) => last.out = "err"

\* C20: the manifest in the directory of an id is the manifest of that id, and
\* the manifests the local store lists are of different ids: at most one
\* manifest per package id.
C20_OneManifestPerId ==
    /\ \A id \in Ids : Decoded(local, id) => InstalledManifest(local, id).ID = id
    /\ \A j, k \in DOMAIN walk([local |-> local], 1) :
          walk([local |-> local], 1)[j].ID = walk([local |-> local], 1)[k].ID => j = k

\* Both packages are installed after one of them was replaced.
C20_Witness ==
    /\ ReplaceCase
    /\ Len(walk([local |-> local], 1)) = 2

(***************************************************************************)
(* cmd/pakman: the list and search commands.  Here a package id is the     *)
(* sequence of its bytes, and the index maps such ids to their current     *)
(* version; the order in which Go ranges over the index is any order.      *)
(***************************************************************************)
MaxKeys == 3   \* most ids in the index that list and search print

Byte == [A |-> 65, B |-> 66, W |-> 87, Z |-> 90, a |-> 97, b |-> 98, w |-> 119]

\* "Ab", "ab", "AB", "aB", "W", "b"
CliIds ==
    { <<Byte.A, Byte.b>>, <<Byte.a, Byte.b>>, <<Byte.A, Byte.B>>, <<Byte.a, Byte.B>>,
      <<Byte.W>>, <<Byte.b>> }
\* "", "a", "B", "w", "aB"
CliQueries == { <<>>, <<Byte.a>>, <<Byte.B>>, <<Byte.w>>, <<Byte.a, Byte.B>> }

CliIndexes ==
    UNION { [K -> {"v1"}] : K \in {K \in SUBSET CliIds : Cardinality(K) <= MaxKeys} }

\* for k := range index { keys = append(keys, k) }: the ids in an order of the range
Orders(K) ==
    {o \in [1..Cardinality(K) -> K] : \A i, j \in 1..Cardinality(K) : i # j => o[i] # o[j]}

\* strings.ToLower, strings.EqualFold, <, strings.Contains on these ids
ToLowerByte(c) == IF c >= Byte.A /\ c <= Byte.Z THEN c + (Byte.a - Byte.A) ELSE c
ToLower(s) == [k \in 1..Len(s) |-> ToLowerByte(s[k])]
EqualFold(s, t) ==
    Len(s) = Len(t) /\ \A k \in 1..Len(s) : ToLowerByte(s[k]) = ToLowerByte(t[k])
StringLess(s, t) ==
    \E k \in 1..Len(t) :
        /\ k <= Len(s) + 1
        /\ \A j \in 1..(k - 1) : s[j] = t[j]
        /\ (k = Len(s) + 1 \/ s[k] < t[k])
Contains(s, sub) ==
    \E i \in 0..(Len(s) - Len(sub)) : \A j \in 1..Len(sub) : s[i + j] = sub[j]

\* Variant: the ids are compared by their lower case only.
lessFolded(keys, i, j) == StringLess(ToLower(keys[i]), ToLower(keys[j]))

\* The less function sortedKeys gives to sort.Slice
less(keys, i, j) ==
    IF EqualFold(keys[i], keys[j]) THEN StringLess(keys[i], keys[j])
    ELSE StringLess(ToLower(keys[i]), ToLower(keys[j]))

swap(keys, i, j) == [keys EXCEPT ![i] = keys[j], ![j] = keys[i]]

\* sort.Slice on a short slice is an insertion sort: the element at j sinks
\* while it is less than the one before it.
RECURSIVE sink(_, _)
sink(keys, j) ==
    IF j > 1 /\ less(keys, j, j - 1) THEN sink(swap(keys, j, j - 1), j - 1) ELSE keys

RECURSIVE insertionSort(_, _)
insertionSort(keys, i) ==
    IF i > Len(keys) THEN keys ELSE insertionSort(sink(keys, i), i + 1)

sortedKeys(order) == insertionSort(order, 2)

\* The ids search prints, from the k-th sorted key on.
RECURSIVE matching(_, _, _)
matching(keys, query, k) ==
    IF k > Len(keys) THEN <<>>
    ELSE IF Contains(ToLower(keys[k]), ToLower(query))
         THEN <<keys[k]>> \o matching(keys, query, k + 1)
    ELSE matching(keys, query, k + 1)

\* list and search once Manager.List returned r: an error ends the command.
listPrinted(r, order) == IF r.out # "ok" THEN r ELSE [r EXCEPT !.val = sortedKeys(order)]
searchPrinted(r, order, query) ==
    IF r.out # "ok" THEN r ELSE [r EXCEPT !.val = matching(sortedKeys(order), query, 1)]

CliList ==
    /\ Idle
    /\ \E order \in Orders(DOMAIN index) : \E failAt \in Steps(ManagerList(Start(0))) :
          Effect("list", <<order>>, failAt, listPrinted(ManagerList(Start(failAt)), order))

CliSearch ==
    /\ Idle
    /\ \E order \in Orders(DOMAIN index) : \E query \in CliQueries :
       \E failAt \in Steps(ManagerList(Start(0))) :
          Effect("search", <<order, query>>, failAt,
                 searchPrinted(ManagerList(Start(failAt)), order, query))

InitCli ==
    /\ kind = "fs"
    /\ index \in CliIndexes
    /\ local = EmptyStore
    /\ cache = Nil
    /\ ttl = 0
    /\ now = 0
    /\ last = NoOp

NextCli == CliList \/ CliSearch \/ Return
SpecCli == InitCli /\ [][NextCli]_vars

(***************************************************************************)
(* Properties of list and search.                                          *)
(***************************************************************************)
\* s comes before t: by lower case first, by bytes when the lower cases are equal.
SortedBefore(s, t) ==
    \/ StringLess(ToLower(s), ToLower(t))
    \/ ToLower(s) = ToLower(t) /\ StringLess(s, t)

\* v holds the ids of K once each, every id before the ids that come after it.
SortedOf(v, K) ==
    /\ Len(v) = Cardinality(K)
    /\ {v[k] : k \in DOMAIN v} = K
    /\ \A i, j \in DOMAIN v : i < j => SortedBefore(v[i], v[j])

\* C21: sortedKeys returns the ids of the index ordered by lower case and, for
\* ids equal under case folding, by bytes, whatever the order of the range over
\* the index; search prints, in that order, exactly the ids that contain the
\* query as a case-insensitive substring.
C21_SortedKeys ==
    /\ (last.op = "list" /\ last.out = "ok") => SortedOf(last.val, DOMAIN index)
    /\ (last.op = "search" /\ last.out = "ok") =>
          SortedOf(last.val,
                   {k \in DOMAIN index : Contains(ToLower(k), ToLower(last.args[2]))})

\* The index {W, ab, Ab} ranged over as W, ab, Ab is listed as Ab, ab, W.
C21_Witness ==
    /\ last.op = "list" /\ last.out = "ok"
    /\ last.args[1] = << <<Byte.W>>, <<Byte.a, Byte.b>>, <<Byte.A, Byte.b>> >>
    /\ last.val = << <<Byte.A, Byte.b>>, <<Byte.a, Byte.b>>, <<Byte.W>> >>

(***************************************************************************)
(* Properties of install: what it leaves alone and the order of its steps. *)
(***************************************************************************)
Mutating == {"Delete", "Write", "WriteManifest"}
OneInstall == One("Install") \/ One("Upgrade")

\* Install(id, "") or Upgrade(id, "") of an id installed at the version the
\* source has as its currentVersion.
UpToDateCase ==
    /\ OneInstall /\ last.args[1].Version = ""
    /\ Decoded(last.pre, Arg)
    /\ InstalledVersion(last.pre, Arg) = index[Arg]

\* C22: with id installed at the source's currentVersion, Install(id, "") and
\* Upgrade(id, "") call GetInstalledManifest and GetSpec only (no GetManifest,
\* GetFile, Delete, Write or WriteManifest), leave the local store as it was and
\* succeed unless one of the two reads fails.
C22_UpToDateNoOp ==
    UpToDateCase =>
        /\ CalledOps \subseteq {"GetInstalledManifest", "GetSpec"}
        /\ local = last.pre
        /\ last.fault = 0 =>
              /\ last.out = "ok"
              /\ [k \in DOMAIN last.calls |-> last.calls[k].op] =
                     <<"GetInstalledManifest", "GetSpec">>

\* Upgrade(id, "") of an up-to-date id returned success after GetSpec.
C22_Witness ==
    /\ UpToDateCase /\ last.op = "Upgrade" /\ last.out = "ok"
    /\ last.calls[Len(last.calls)].op = "GetSpec"
    /\ last.resolved = <<index[Arg]>>

\* Install or Upgrade of one spec returned an error and the last thing it did
\* was to read the installed manifest, the catalog entry or the target manifest.
FailedBeforeDelete ==
    /\ OneInstall /\ last.out = "err"
    /\ Len(last.calls) > 0
    /\ last.calls[Len(last.calls)].op \in {"GetInstalledManifest", "GetSpec", "GetManifest"}

\* C23: an Install or Upgrade that fails because the installed manifest cannot
\* be read, the id has no catalog entry, GetSpec or GetManifest returns an error
\* or the target manifest is not found has called no Delete, Write or
\* WriteManifest and leaves the local store as it was.
C23_FailsBeforeDelete ==
    FailedBeforeDelete =>
        /\ CalledOps \cap Mutating = {}
        /\ local = last.pre

\* The target manifest of an installed id was not found: the id stays installed.
C23_Witness ==
    /\ FailedBeforeDelete /\ last.fault = 0
    /\ last.calls[Len(last.calls)].op = "GetManifest"
    /\ Decoded(last.pre, Arg)
    /\ InstalledVersion(local, Arg) # last.resolved[1]

\* The calls install made to transfer the files and to write the manifest.
Transfer == SelectSeq(last.calls, LAMBDA c : c.op \in {"GetFile", "Write", "WriteManifest"})
Written == Cardinality({k \in DOMAIN last.calls :
                           last.calls[k].op = "Write" /\ last.calls[k].ok})
\* Install or Upgrade of one spec came to download the files of its manifest.
DownloadCase == OneInstall /\ "GetFile" \in CalledOps
\* The file f of id as the uninstall of the existing version left it.
AfterDelete(id, f) ==
    IF Decoded(last.pre, id) /\ f \in Listed(InstalledManifest(last.pre, id)) THEN NoFile
    ELSE last.pre.files[id][f]

\* C24: install fetches and writes the files in the order of the manifest, one
\* GetFile then one Write per file, stops at the first GetFile or Write that
\* fails, and calls WriteManifest only after every listed file was written: the
\* files before the failing one hold the source's content, the files after it
\* are untouched, and the manifest of the version is in the store only if all
\* its files were written by this install.
C24_TransferInOrder ==
    DownloadCase =>
        LET files == SrcManifest(Arg, last.resolved[1]).Files IN
        /\ Len(Transfer) <= 2 * Len(files) + 1
        /\ \A k \in DOMAIN Transfer :
              /\ Transfer[k].op = IF k > 2 * Len(files) THEN "WriteManifest"
                                  ELSE IF k % 2 = 1 THEN "GetFile" ELSE "Write"
              /\ k < Len(Transfer) => Transfer[k].ok
        /\ \A j \in DOMAIN files :
              /\ j <= Written => local.files[Arg][files[j]] = SrcFile(Arg, last.resolved[1], files[j])
              /\ j > Written + 1 => local.files[Arg][files[j]] = AfterDelete(Arg, files[j])
        /\ "WriteManifest" \in CalledOps => Written = Len(files)
        /\ Decoded(local, Arg) =>
              /\ InstalledVersion(local, Arg) = last.resolved[1]
              /\ Written = Len(files)

\* The first file of the manifest was written, the second could not be fetched:
\* the loop stopped and no manifest was written.
C24_Witness ==
    /\ DownloadCase /\ last.out = "err"
    /\ Len(SrcManifest(Arg, last.resolved[1]).Files) = 2
    /\ [k \in DOMAIN Transfer |-> Transfer[k].op] = <<"GetFile", "Write", "GetFile">>
    /\ Written = 1
    /\ local.manifest[Arg] = Absent

\* Upgrade() with no spec.
UpgradeAllCase == last.op = "Upgrade" /\ Len(last.args) = 0
\* The ids ListInstalled finds in the store, in its order.
InstalledIds(store) == SelectSeq(IdOrder, LAMBDA id : Decoded(store, id))
CallsOf(op) == SelectSeq(last.calls, LAMBDA c : c.op = op)

\* C25: Upgrade() installs one spec with an empty version per manifest that
\* ListInstalled returns, each resolved to the source's currentVersion; when it
\* returns success, every installed package is at the source's currentVersion
\* and an Upgradable() that follows returns the empty list.
C25_UpgradeAll ==
    UpgradeAllCase =>
        /\ \A k \in DOMAIN last.resolved :
              /\ k <= Len(InstalledIds(last.pre))
              /\ last.resolved[k] = index[InstalledIds(last.pre)[k]]
              /\ k <= Len(CallsOf("GetSpec"))
              /\ CallsOf("GetSpec")[k].i = k
        /\ last.out = "ok" =>
              /\ Len(last.resolved) = Len(InstalledIds(last.pre))
              /\ Len(CallsOf("GetInstalledManifest")) = Len(InstalledIds(last.pre))
              /\ \A id \in Ids : Decoded(local, id) => InstalledVersion(local, id) = index[id]
              /\ ManagerUpgradable(StartFrom(local, cache, 0)).out = "ok"
              /\ ManagerUpgradable(StartFrom(local, cache, 0)).val = <<>>

\* Upgrade() brought two installed packages to their currentVersion.
C25_Witness ==
    /\ UpgradeAllCase /\ last.out = "ok"
    /\ \A id \in Ids :
          /\ Decoded(last.pre, id)
          /\ InstalledVersion(last.pre, id) # index[id]
          /\ InstalledVersion(local, id) = index[id]

(***************************************************************************)
(* Two Install calls for one id that run at the same time, each on its own *)
(* goroutine over the same local store.  A step is one access to the       *)
(* store: the read of the installed manifest, one os.Remove, the Write of  *)
(* one file, the WriteManifest.  last holds the two calls: where each      *)
(* stands (pc), the manifest it installs, the files it ranges over and its *)
(* position k in them; overlap records that one call took a step while the *)
(* other was between its first step and its return.                        *)
(***************************************************************************)
Callers == {1, 2}
Other(p) == CHOOSE q \in Callers : q # p

Caller(v) ==
    [pc |-> "start", version |-> v, manifest |-> Nil, files |-> <<>>, k |-> 0, out |-> ""]
Returned(P, out) == [P EXCEPT !.pc = "done", !.out = out]
Stepped(P, store) == [proc |-> P, local |-> store]
Ctx(store) == StartFrom(store, cache, 0)

\* install up to its uninstall: the installed manifest e and the manifest m of
\* the version to install are read.
installStart(P, e, m) ==
    IF e.err # "" THEN Returned(P, "err")
    ELSE IF e.val # Nil /\ e.val.Version = P.version THEN Returned(P, "ok")
    ELSE IF m.err # "" \/ m.val = Nil THEN Returned(P, "err")
    ELSE [P EXCEPT !.pc = IF e.val # Nil THEN "uninstall" ELSE "download",
                   !.manifest = m.val, !.files = m.val.Files, !.k = 1]

\* Delete once it read the installed manifest as e: nothing to delete, or the
\* files e lists are to be removed.
deleteStart(P, e) ==
    IF e.err # "" THEN Returned(P, "err")
    ELSE IF e.val = Nil THEN [P EXCEPT !.pc = "download", !.files = P.manifest.Files, !.k = 1]
    ELSE [P EXCEPT !.pc = "remove", !.files = e.val.Files, !.k = 1]

\* Variant: a listed file is left in place.
keepListed(P, id, store) == Stepped([P EXCEPT !.k = @ + 1], store)

\* os.Remove of the k-th listed file
removeListed(P, id, store) ==
    IF store.files[id][P.files[P.k]] = NoFile THEN Stepped(Returned(P, "err"), store)
    ELSE Stepped([P EXCEPT !.k = @ + 1], [store EXCEPT !.files[id][P.files[P.k]] = NoFile])

\* os.Remove of the manifest, the last step of Delete
removeManifest(P, id, store) ==
    IF store.manifest[id] = Absent THEN Stepped(Returned(P, "err"), store)
    ELSE Stepped([P EXCEPT !.pc = "download", !.files = P.manifest.Files, !.k = 1],
                 [store EXCEPT !.manifest[id] = Absent])

\* downloadFile of the k-th file once GetFile returned g
downloadStep(P, id, store, g) ==
    IF g.err # "" THEN Stepped(Returned(P, "err"), store)
    ELSE Stepped([P EXCEPT !.k = @ + 1],
                 Write(Ctx(store), id, P.version, P.files[P.k], g.val.data).x.local)

manifestStep(P, store) ==
    Stepped(Returned(P, "ok"), WriteManifest(Ctx(store), P.manifest).x.local)

Racing == last.op = "race"
Pc(p) == last.procs[p].pc

\* Caller p takes the step that ends as s.
Take(p, s) ==
    /\ local' = s.local
    /\ last' = [last EXCEPT !.procs[p] = s.proc,
                            !.overlap = @ \/ Pc(Other(p)) \notin {"start", "done"}]
    /\ UNCHANGED <<kind, index, cache, ttl, now>>

\* Two goroutines call Install for the same id with different versions.
BeginRace ==
    /\ Idle
    /\ \E id \in Ids : \E v, w \in Versions :
          /\ v # w
          /\ last' = [op |-> "race", id |-> id, pre |-> local, overlap |-> FALSE,
                      procs |-> <<Caller(v), Caller(w)>>]
    /\ UNCHANGED <<kind, index, local, cache, ttl, now>>

ReadInstalled ==
    /\ Racing
    /\ \E p \in Callers :
          /\ Pc(p) = "start"
          /\ Take(p, Stepped(installStart(last.procs[p],
                                          GetInstalledManifest(Ctx(local), last.id),
                                          GetManifest(Ctx(local), last.id,
                                                      last.procs[p].version)),
                             local))

OpenInstalled ==
    /\ Racing
    /\ \E p \in Callers :
          /\ Pc(p) = "uninstall"
          /\ Take(p, Stepped(deleteStart(last.procs[p],
                                         GetInstalledManifest(Ctx(local), last.id)),
                             local))

RemoveFile ==
    /\ Racing
    /\ \E p \in Callers :
          /\ Pc(p) = "remove" /\ last.procs[p].k <= Len(last.procs[p].files)
          /\ Take(p, removeListed(last.procs[p], last.id, local))

RemoveManifest ==
    /\ Racing
    /\ \E p \in Callers :
          /\ Pc(p) = "remove" /\ last.procs[p].k > Len(last.procs[p].files)
          /\ Take(p, removeManifest(last.procs[p], last.id, local))

DownloadFile ==
    /\ Racing
    /\ \E p \in Callers :
          /\ Pc(p) = "download" /\ last.procs[p].k <= Len(last.procs[p].files)
          /\ Take(p, downloadStep(last.procs[p], last.id, local,
                                  GetFile(Ctx(local), last.id, last.procs[p].version,
                                          last.procs[p].files[last.procs[p].k])))

WriteInstalled ==
    /\ Racing
    /\ \E p \in Callers :
          /\ Pc(p) = "download" /\ last.procs[p].k > Len(last.procs[p].files)
          /\ Take(p, manifestStep(last.procs[p], local))

\* Both calls have returned.
RaceOver == Racing /\ \A p \in Callers : Pc(p) = "done"

ReturnBoth ==
    /\ RaceOver
    /\ last' = NoOp
    /\ UNCHANGED <<kind, index, local, cache, ttl, now>>

NextRace ==
    \/ BeginRace \/ ReadInstalled \/ OpenInstalled \/ RemoveFile \/ RemoveManifest
    \/ DownloadFile \/ WriteInstalled \/ ReturnBoth
SpecRace == Init /\ [][NextRace]_vars

(***************************************************************************)
(* Properties of concurrent installs.                                      *)
(***************************************************************************)
\* The store after Install(id, v) then Install(id, w), one after the other.
Serial(store, id, v, w) ==
    ManagerInstall(Ctx(ManagerInstall(Ctx(store), <<InstallSpec(id, v)>>).x.local),
                   <<InstallSpec(id, w)>>).x.local
SerialStores ==
    { Serial(last.pre, last.id, last.procs[1].version, last.procs[2].version),
      Serial(last.pre, last.id, last.procs[2].version, last.procs[1].version) }

\* C26: Install takes no lock.  Two Install calls for the same id with different
\* versions leave the store that one of the two serial orders leaves whenever
\* neither takes a step while the other is under way; an interleaving of their
\* steps can leave a store that neither serial order leaves (the witness).
C26_SerialUnlessOverlap ==
    (RaceOver /\ ~last.overlap) => local \in SerialStores

\* Both calls returned success and the store is that of neither serial order:
\* the surviving manifest is of one version, a file under the id of the other.
C26_Witness ==
    /\ RaceOver /\ last.overlap
    /\ \A p \in Callers : last.procs[p].out = "ok"
    /\ local \notin SerialStores
    /\ Decoded(local, last.id)
    /\ \E p \in Callers : \E f \in FileNames :
          /\ last.procs[p].version # InstalledVersion(local, last.id)
          /\ local.files[last.id][f] = SrcFile(last.id, last.procs[p].version, f)
          /\ local.files[last.id][f] # NoFile

(***************************************************************************)
(* Properties of the files in the store and the manifests that own them.   *)
(***************************************************************************)
\* The file f of id is there and the manifest installed for id lists it.
Owned(store, id, f) == Decoded(store, id) /\ f \in Listed(InstalledManifest(store, id))
\* The file f of id is there and no installed manifest lists it.
Unowned(store, id, f) == store.files[id][f] # NoFile /\ ~Owned(store, id, f)
Changing == last.op \in {"Install", "Upgrade", "Uninstall"}

\* C27 as stated: in every state that Install, Upgrade and Uninstall calls reach
\* from the empty store, calls that fail included, every file present under an
\* id is listed by the manifest installed for that id.
C27_NoOrphanFiles ==
    \A id \in Ids : \A f \in FileNames : ~Unowned(local, id, f)

\* C27, amended: a file that is present under an id and that the installed
\* manifest does not list was either already there, unlisted and with the same
\* content, before the last call, or was written by the last call and that call
\* failed; so a successful Install, Upgrade or Uninstall adds no such file and
\* removes none.
C27_OrphansOnlyFromFailures ==
    Changing =>
        \A id \in Ids : \A f \in FileNames :
            Unowned(local, id, f) =>
                \/ /\ Unowned(last.pre, id, f)
                   /\ local.files[id][f] = last.pre.files[id][f]
                \/ /\ last.out # "ok"
                   /\ "Write" \in CalledOps
                   /\ \/ local.files[id][f] = Partial
                      \/ \E k \in DOMAIN last.resolved :
                            local.files[id][f] = SrcFile(id, last.resolved[k], f)

\* A successful Install of another version left in place a file that an earlier
\* failed install had written and that no manifest lists.
C27_Witness ==
    /\ One("Install") /\ last.out = "ok" /\ local # last.pre
    /\ Decoded(local, Arg)
    /\ \E f \in FileNames :
          /\ Unowned(local, Arg, f)
          /\ local.files[Arg][f] # SrcFile(Arg, InstalledVersion(local, Arg), f)

====
